---- MODULE Spec2Model ----
(***************************************************************************)
(* A model of fiemap.c: main's per-argument loop and read_fiemap, the      *)
(* multi-chunk FS_IOC_FIEMAP query loop that accumulates the extents of    *)
(* one file into a realloc-grown result buffer.                            *)
(*                                                                         *)
(* The heap is a function from live block addresses to blocks; malloc,     *)
(* realloc and free act on it as libc does.  The kernel interface (fstat,  *)
(* open, ioctl) is the environment: its answers are drawn from small sets. *)
(* The clock_gettime calls and the printed tables carry no state and are   *)
(* left out; `reported' keeps the arguments dump_fiemap was called for.    *)
(***************************************************************************)
EXTENDS Integers, Sequences, FiniteSets, TLC

\* ------------------------------------------------------------------ bounds
\* Largest number of file arguments (argc - 1).
MaxArgs == 2
\* Largest number of ioctl calls issued for one file.
MaxCalls == 3
\* Size of a short (partial) response.
ShortChunk == 5
\* Extent lengths the interface reports: 0 .. MaxExtentLen.
MaxExtentLen == 1
\* st_size of a small and of a large file.
SmallFileSize == 2
BigFileSize == 4096
\* How far below the largest count the running counts of SizeSpec range.
SizeWindow == 8

\* ------------------------------------------------------- program constants
MAX_EXTENTS == 1024
FIEMAP_FLAG_SYNC == 1
FIEMAP_EXTENT_LAST == 1
NULL == 0

\* The value of memory that malloc/realloc returned and nothing wrote yet.
Indeterminate == 0 - 1

VARIABLES
    \* main
    argc, i, main_pc, exit_status, open_fds, attempted, reported,
    \* read_fiemap's locals
    rf_pc, fd, fiemap, result_fiemap, fm_tmp, extents_size, result_extents,
    fiemap_start, fiemap_length, ret,
    \* the heap
    heap, mem_error,
    \* the interface's side of the current file: what it was asked and answered
    requests, answered, failed_call, stat_ok

main_vars == <<argc, i, main_pc, exit_status, open_fds, attempted, reported>>
rf_vars == <<rf_pc, fd, fiemap, result_fiemap, fm_tmp, extents_size,
             result_extents, fiemap_start, fiemap_length, ret>>
env_vars == <<requests, answered, failed_call, stat_ok>>
vars == <<main_vars, rf_vars, heap, mem_error, env_vars>>

\* ----------------------------------------------------------------- helpers
RECURSIVE Sum(_)
Sum(s) ==
    IF s = <<>> THEN 0 ELSE Head(s) + Sum(Tail(s))

RECURSIVE Concat(_)
Concat(ss) ==
    IF ss = <<>> THEN <<>> ELSE Head(ss) \o Concat(Tail(ss))

Lens(ss) ==
    [n \in 1..Len(ss) |-> Len(ss[n])]

Min(S) ==
    CHOOSE x \in S : \A y \in S : x <= y

\* ------------------------------------------------------------------- heap
\* struct fiemap_extent
Extent(logical, physical, length, flags) ==
    [fe_logical |-> logical, fe_physical |-> physical,
     fe_length |-> length, fe_flags |-> flags]

ZeroExtent == Extent(0, 0, 0, 0)
IndeterminateExtent ==
    Extent(Indeterminate, Indeterminate, Indeterminate, Indeterminate)

\* struct fiemap: the header fields and fm_extents[].  fm_extents lists the
\* entries written one by one; the entries after them, up to the block's room,
\* all hold the block's `fill' (zero after memset, indeterminate after malloc).
Fiemap(start, length, flags, mapped, count, extents) ==
    [fm_start |-> start, fm_length |-> length, fm_flags |-> flags,
     fm_mapped_extents |-> mapped, fm_extent_count |-> count,
     fm_extents |-> extents]

\* A block as malloc returns it, with room for `room' extents: nothing written.
Block(file, kind, room) ==
    [owner |-> file, kind |-> kind, room |-> room,
     fill |-> IndeterminateExtent,
     data |-> Fiemap(Indeterminate, Indeterminate, Indeterminate,
                     Indeterminate, Indeterminate, <<>>)]

Live(p) == p \in DOMAIN heap

\* The address malloc hands out: one that is not in use.
NewBlock(h) ==
    Min((1..(Cardinality(DOMAIN h) + 1)) \ DOMAIN h)

HeapWith(h, p, blk) ==
    [b \in DOMAIN h \cup {p} |-> IF b = p THEN blk ELSE h[b]]

HeapWithout(h, p) ==
    [b \in DOMAIN h \ {p} |-> h[b]]

\* free(p): of NULL nothing, of a live block its release; of anything else an
\* invalid (double) free, which FreeError reports.
Free(h, p) ==
    IF p = NULL \/ p \notin DOMAIN h THEN h ELSE HeapWithout(h, p)

FreeError(h, p) ==
    p # NULL /\ p \notin DOMAIN h

\* fm_extents[0 .. n-1] of the live block p, as a read sees them.
Entries(h, p, n) ==
    IF n = Len(h[p].data.fm_extents)
    THEN h[p].data.fm_extents
    ELSE [k \in 1..n |-> IF k <= Len(h[p].data.fm_extents)
                         THEN h[p].data.fm_extents[k]
                         ELSE h[p].fill]

\* realloc(p, room for `room' extents) that succeeds: the block keeps its
\* contents up to the smaller of the old and new sizes, in place ("same") or at
\* a new address with the old block released ("moved").
ReallocPtr(h, p, how) ==
    IF how = "moved" THEN NewBlock(h) ELSE p

Resized(blk, room) ==
    [blk EXCEPT !.room = room,
                !.data.fm_extents =
                    SubSeq(blk.data.fm_extents, 1,
                           Min({Len(blk.data.fm_extents), room}))]

\* (mutant) a block that moves is a new block: its old contents are not copied
Realloc_NoCopy(h, p, room, how) ==
    HeapWith(HeapWithout(h, p), ReallocPtr(h, p, how),
             IF how = "moved"
             THEN Block(h[p].owner, h[p].kind, room)
             ELSE Resized(h[p], room))

Realloc(h, p, room, how) ==
    HeapWith(HeapWithout(h, p), ReallocPtr(h, p, how), Resized(h[p], room))

\* memcpy(dst->fm_extents + off, src, n * sizeof(struct fiemap_extent)).
Memcpy(h, dst, off, src, n) ==
    LET old == h[dst].data.fm_extents
        top == IF Len(old) > off + n THEN Len(old) ELSE off + n
    IN  [h EXCEPT ![dst].data.fm_extents =
            IF off = Len(old)
            THEN old \o SubSeq(src, 1, n)
            ELSE [k \in 1..top |->
                    IF k > off /\ k <= off + n THEN src[k - off]
                    ELSE IF k <= Len(old) THEN old[k]
                    ELSE h[dst].fill]]

\* The copy writes past the end of the destination block.
MemcpyOverflow(h, dst, off, n) ==
    off + n > h[dst].room

\* ---------------------------------------------------- the kernel interface
\* What a successful FS_IOC_FIEMAP call maps: nothing, one extent, a short
\* chunk, or as many as the request has room for.
MappedCounts == {0, 1, ShortChunk, MAX_EXTENTS}

\* The k extents of one response: they start at `first', each is `len' long
\* and begins where the one before ends; the final one carries
\* FIEMAP_EXTENT_LAST when `last'.  A response with first = fm_start and
\* len > 0 is what a filesystem answers; the others are malformed.
Response(k, first, len, last) ==
    [n \in 1..k |->
        Extent(first + (n - 1) * len, 2 * (first + (n - 1) * len) + 1, len,
               IF n = k /\ last THEN FIEMAP_EXTENT_LAST ELSE 0)]

\* What a failed call may leave in the buffer: nothing, or one extent that
\* looks like the file's last.
Garbage(k, start) ==
    Response(k, start, 1, TRUE)

\* ------------------------------------------------------------ read_fiemap
\* (mutant) the loop is entered when the cursor equals the file size
LoopCondition_Inclusive(start, length) ==
    start <= length

\* line 115: while (fiemap_start < fiemap_length)
LoopCondition(start, length) ==
    start < length

\* (mutant) the request asks for the span that is left, length - start
Request_Remaining(start, length) ==
    Fiemap(start, length - start, FIEMAP_FLAG_SYNC, 0, MAX_EXTENTS, <<>>)

\* lines 116-122: the zeroed request
Request(start, length) ==
    Fiemap(start, length, FIEMAP_FLAG_SYNC, 0, MAX_EXTENTS, <<>>)

\* (mutant) the return value is tested with the wrong sign
IoctlFailed_Positive(rc) ==
    rc > 0

\* (mutant) the return value of ioctl is not tested
IoctlFailed_Never(rc) ==
    FALSE

\* line 126: if (ioctl(fd, FS_IOC_FIEMAP, fiemap) < 0)
IoctlFailed(rc) ==
    rc < 0

\* line 136: if (fiemap->fm_mapped_extents == 0) break;
NothingToProcess(mapped) ==
    mapped = 0

\* sizeof(struct fiemap_extent), in bytes
SizeofExtent == 56

\* The largest value of an int (line 81: int extents_size).
INT_MAX == (2^30 - 1) + 2^30

\* line 140: extents_size = sizeof(struct fiemap_extent) * (result_extents +
\* fm_mapped_extents), in bytes.  The product is a size_t; the int keeps its
\* low 32 bits as a two's complement number.  56 = 8 * 7, so these are 8
\* times the low 29 bits of 7 * n, and those depend on the low 29 bits of n
\* alone: on n % 2^28 and on bit 28 of n (7 * 2^28 = 2^28 modulo 2^29).
ExtentsSize(count, mapped) ==
    LET n == count + mapped
        low == (7 * (n % 2^28) + ((n \div 2^28) % 2) * 2^28) % 2^29
    IN  8 * (IF low >= 2^28 THEN low - 2^29 ELSE low)

\* line 143: realloc(result_fiemap, sizeof(struct fiemap) + extents_size).
\* The int is converted to size_t: a negative one becomes a size of more than
\* 2^63 bytes, which no allocator grants.
Grantable(size) ==
    size >= 0

\* The extents a result block of sizeof(struct fiemap) + size bytes has room
\* for.
RoomFor(size) ==
    size \div SizeofExtent

\* (mutant) the count is overwritten instead of added to
NewCount_Assign(count, mapped) ==
    mapped

\* line 155: result_extents += fiemap->fm_mapped_extents
NewCount(count, mapped) ==
    count + mapped

\* (mutant) the chunk is copied to the start of the result's extents
CopyOffset_Start(count) ==
    0

\* line 150: the copy's destination, result_fiemap->fm_extents + result_extents
CopyOffset(count) ==
    count

\* lines 161-162: the next query starts where the chunk's last extent ends
NextStart(e) ==
    e.fe_logical + e.fe_length

\* line 164: fe_flags & FIEMAP_EXTENT_LAST
IsLast(e) ==
    (e.fe_flags \div FIEMAP_EXTENT_LAST) % 2 = 1

\* (mutant) fail_cleanup forgets the chunk buffer
CleanupHeap_ResultOnly(h, result, chunk) ==
    Free(h, result)

\* lines 177-184: fail_cleanup frees what is allocated
CleanupHeap(h, result, chunk) ==
    Free(Free(h, result), chunk)

CleanupError(h, result, chunk) ==
    FreeError(h, result) \/ FreeError(Free(h, result), chunk)

InReadFiemap(pc) ==
    main_pc = "read_fiemap" /\ rf_pc = pc

Return(value) ==
    /\ rf_pc' = "returned"
    /\ ret' = value

\* (mutant) a file of size 0 is turned away like one whose size is unknown
FstatFailed_OrEmpty(rc, st_size) ==
    rc # 0 \/ st_size = 0

\* line 91: if (fstat(fd, &statinfo) != 0); the size reported plays no part
FstatFailed(rc, st_size) ==
    rc # 0

\* lines 90-96: fstat returns rc and, when it succeeds, the file's st_size
Fstat(rc, st_size) ==
    /\ InReadFiemap("fstat")
    /\ stat_ok' = (rc = 0)
    /\ IF FstatFailed(rc, st_size)
       THEN /\ Return(NULL)
            /\ UNCHANGED fiemap_length
       ELSE /\ fiemap_length' = st_size
            /\ rf_pc' = "malloc_fiemap"
            /\ UNCHANGED ret
    /\ UNCHANGED <<main_vars, fd, fiemap, result_fiemap, fm_tmp, extents_size, result_extents,
                   fiemap_start, heap, mem_error,
                   requests, answered, failed_call>>

RF_FstatFail ==
    Fstat(0 - 1, Indeterminate)

RF_Fstat ==
    \E st_size \in {0, SmallFileSize, BigFileSize} :
        Fstat(0, st_size)

\* lines 98-102: the chunk buffer
RF_MallocFiemapFail ==
    /\ InReadFiemap("malloc_fiemap")
    /\ Return(NULL)
    /\ UNCHANGED <<main_vars, fd, fiemap, result_fiemap, fm_tmp, extents_size, result_extents,
                   fiemap_start, fiemap_length, heap, mem_error, env_vars>>

RF_MallocFiemap ==
    /\ InReadFiemap("malloc_fiemap")
    /\ fiemap' = NewBlock(heap)
    /\ heap' = HeapWith(heap, NewBlock(heap), Block(i, "fiemap", MAX_EXTENTS))
    /\ rf_pc' = "malloc_result"
    /\ UNCHANGED <<main_vars, fd, result_fiemap, fm_tmp, extents_size, result_extents,
                   fiemap_start, fiemap_length, ret, mem_error, env_vars>>

\* lines 104-108: the result block, with room for the header alone
RF_MallocResultFail ==
    /\ InReadFiemap("malloc_result")
    /\ rf_pc' = "fail_cleanup"
    /\ UNCHANGED <<main_vars, fd, fiemap, result_fiemap, fm_tmp, extents_size, result_extents,
                   fiemap_start, fiemap_length, ret, heap, mem_error, env_vars>>

RF_MallocResult ==
    /\ InReadFiemap("malloc_result")
    /\ result_fiemap' = NewBlock(heap)
    /\ heap' = HeapWith(heap, NewBlock(heap), Block(i, "result_fiemap", 0))
    /\ rf_pc' = "while"
    /\ UNCHANGED <<main_vars, fd, fiemap, fm_tmp, extents_size, result_extents,
                   fiemap_start, fiemap_length, ret, mem_error, env_vars>>

\* line 115, the loop condition false: on to line 169
RF_LoopEnd ==
    /\ InReadFiemap("while")
    /\ ~LoopCondition(fiemap_start, fiemap_length)
    /\ rf_pc' = "finish"
    /\ UNCHANGED <<main_vars, fd, fiemap, result_fiemap, fm_tmp, extents_size, result_extents,
                   fiemap_start, fiemap_length, ret, heap, mem_error, env_vars>>

\* (mutant) the request fields are set in a buffer that is not cleared first
Zeroed_FieldsOnly(blk, start, length) ==
    [blk EXCEPT !.data.fm_start = start, !.data.fm_length = length,
                !.data.fm_flags = FIEMAP_FLAG_SYNC,
                !.data.fm_extent_count = MAX_EXTENTS]

\* The chunk buffer after memset and the request fields (lines 116-122).
Zeroed(blk, start, length) ==
    [blk EXCEPT !.fill = ZeroExtent, !.data = Request(start, length)]

\* lines 115-130: one query.  The kernel answers rc with `mapped' extents in
\* the buffer.
Ioctl(rc, mapped, extents) ==
    LET asked == Zeroed(heap[fiemap], fiemap_start, fiemap_length)
        filled == [asked EXCEPT !.data.fm_mapped_extents = mapped,
                                !.data.fm_extents = extents]
    IN  /\ InReadFiemap("while")
        /\ LoopCondition(fiemap_start, fiemap_length)
        /\ Len(requests) < MaxCalls
        /\ requests' = Append(requests, asked)
        /\ heap' = [heap EXCEPT ![fiemap] = filled]
        /\ rf_pc' = IF IoctlFailed(rc) THEN "fail_cleanup" ELSE "process"
        \* the interface's record of the call: answered, or failed
        /\ answered' = IF rc < 0 THEN answered ELSE Append(answered, extents)
        /\ failed_call' = IF rc < 0 THEN Len(requests) + 1 ELSE failed_call
        /\ UNCHANGED <<main_vars, fd, fiemap, result_fiemap, fm_tmp,
                       extents_size, result_extents, fiemap_start,
                       fiemap_length, ret, mem_error, stat_ok>>

RF_IoctlFail ==
    \E k \in {0, 1} :
        Ioctl(0 - 1, k, Garbage(k, fiemap_start))

RF_Ioctl ==
    \E k \in MappedCounts, len \in 0..MaxExtentLen, last \in BOOLEAN :
        /\ k = 0 => (len = 0 /\ ~last)
        /\ Ioctl(0, k, Response(k, fiemap_start, len, last))

\* lines 136-137: nothing mapped, break
RF_Nothing ==
    /\ InReadFiemap("process")
    /\ NothingToProcess(heap[fiemap].data.fm_mapped_extents)
    /\ rf_pc' = "finish"
    /\ UNCHANGED <<main_vars, fd, fiemap, result_fiemap, fm_tmp, extents_size, result_extents,
                   fiemap_start, fiemap_length, ret, heap, mem_error, env_vars>>

\* lines 140-147: realloc fails; result_fiemap still names the old block
RF_ReallocFail ==
    /\ InReadFiemap("process")
    /\ ~NothingToProcess(heap[fiemap].data.fm_mapped_extents)
    /\ extents_size' = ExtentsSize(result_extents,
                                    heap[fiemap].data.fm_mapped_extents)
    /\ fm_tmp' = NULL
    /\ rf_pc' = "fail_cleanup"
    /\ UNCHANGED <<main_vars, fd, fiemap, result_fiemap, result_extents,
                   fiemap_start, fiemap_length, ret, heap, mem_error, env_vars>>

\* (mutant) a chunk that does not fill the buffer is taken for the last one
Breaks_WhenShort(mapped, e) ==
    mapped < MAX_EXTENTS \/ (mapped # 0 /\ IsLast(e))

\* (mutant) the loop is left after the first chunk, flagged or not
Breaks_Always(mapped, e) ==
    TRUE

\* (mutant) the flag is not looked at: the loop goes on after the last extent
Breaks_Never(mapped, e) ==
    FALSE

\* lines 158-165: after a chunk of `mapped' extents whose last one is e, the
\* loop is left when e is flagged as the file's last extent
Breaks(mapped, e) ==
    mapped # 0 /\ IsLast(e)

\* lines 140-166: realloc succeeds, the chunk is copied behind the extents
\* already held and the cursor moves past the chunk's last extent
RF_Append ==
    /\ InReadFiemap("process")
    /\ ~NothingToProcess(heap[fiemap].data.fm_mapped_extents)
    /\ \E how \in {"same", "moved"} :
        LET mapped == heap[fiemap].data.fm_mapped_extents
            size == ExtentsSize(result_extents, mapped)
            tmp == ReallocPtr(heap, result_fiemap, how)
            grown == Realloc(heap, result_fiemap, RoomFor(size), how)
            off == CopyOffset(result_extents)
            e == Entries(heap, fiemap, mapped)[mapped]
        IN  /\ Grantable(size)
            /\ extents_size' = size
            /\ fm_tmp' = tmp
            /\ result_fiemap' = tmp
            /\ heap' = Memcpy(grown, tmp, off,
                              Entries(grown, fiemap, mapped), mapped)
            /\ mem_error' = IF MemcpyOverflow(grown, tmp, off, mapped)
                            THEN "overflow" ELSE mem_error
            /\ result_extents' = NewCount(result_extents, mapped)
            /\ fiemap_start' = NextStart(e)
            /\ rf_pc' = IF Breaks(mapped, e) THEN "finish" ELSE "while"
    /\ UNCHANGED <<main_vars, fd, fiemap, fiemap_length, ret, env_vars>>

\* lines 169-175: the count is stored, the chunk buffer freed, the result
\* returned
FinishHeap(h, result, chunk, count) ==
    Free([h EXCEPT ![result].data.fm_mapped_extents = count], chunk)

RF_Finish ==
    /\ InReadFiemap("finish")
    /\ heap' = FinishHeap(heap, result_fiemap, fiemap, result_extents)
    /\ mem_error' = IF FreeError(heap, fiemap) THEN "invalid free"
                    ELSE mem_error
    /\ Return(result_fiemap)
    /\ UNCHANGED <<main_vars, fd, fiemap, result_fiemap, fm_tmp, extents_size, result_extents,
                   fiemap_start, fiemap_length, env_vars>>

\* lines 177-184
RF_FailCleanup ==
    /\ InReadFiemap("fail_cleanup")
    /\ heap' = CleanupHeap(heap, result_fiemap, fiemap)
    /\ mem_error' = IF CleanupError(heap, result_fiemap, fiemap)
                    THEN "invalid free" ELSE mem_error
    /\ Return(NULL)
    /\ UNCHANGED <<main_vars, fd, fiemap, result_fiemap, fm_tmp, extents_size, result_extents,
                   fiemap_start, fiemap_length, env_vars>>

\* ------------------------------------------------------------------- main
\* lines 191-194: no file argument
Main_Syntax ==
    /\ main_pc = "main"
    /\ argc < 2
    /\ main_pc' = "exited"
    /\ exit_status' = "EXIT_FAILURE"
    /\ UNCHANGED <<argc, i, open_fds, attempted, reported, rf_vars, heap,
                   mem_error, env_vars>>

\* lines 191, 196: on to the loop, i = 1
Main_Loop ==
    /\ main_pc = "main"
    /\ ~(argc < 2)
    /\ i' = 1
    /\ main_pc' = "for"
    /\ UNCHANGED <<argc, exit_status, open_fds, attempted, reported, rf_vars,
                   heap, mem_error, env_vars>>

\* lines 196-202: argv[i] cannot be opened
Main_OpenFail ==
    /\ main_pc = "for"
    /\ i < argc
    /\ attempted' = Append(attempted, i)
    /\ i' = i + 1
    /\ UNCHANGED <<argc, main_pc, exit_status, open_fds, reported, rf_vars,
                   heap, mem_error, env_vars>>

\* The descriptor open returns: the lowest one not in use.
NewFd(fds) ==
    Min((3..(3 + Cardinality(fds))) \ fds)

\* lines 196-206: argv[i] is opened and read_fiemap(fd) called (lines 78-85)
Main_Open ==
    /\ main_pc = "for"
    /\ i < argc
    /\ attempted' = Append(attempted, i)
    /\ open_fds' = open_fds \cup {NewFd(open_fds)}
    /\ main_pc' = "read_fiemap"
    /\ rf_pc' = "fstat"
    /\ fd' = NewFd(open_fds)
    /\ UNCHANGED <<argc, i, exit_status, reported, fiemap, result_fiemap,
                   fm_tmp, extents_size, result_extents, fiemap_start, fiemap_length, ret,
                   heap, mem_error, env_vars>>

\* (mutant) the descriptor is not closed
CloseFd_Never(fds, f) ==
    fds

\* line 208: close(fd)
CloseFd(fds, f) ==
    fds \ {f}

\* Once main's pointer to a block is gone the program cannot read the block
\* any more: of such a block the heap keeps that it is allocated, and whose.
Unreachable(blk) ==
    Block(blk.owner, blk.kind, 0)

\* What main does with the block read_fiemap returned (lines 206-209).
Dispose(h, result) ==
    [h EXCEPT ![result] = Unreachable(h[result])]

\* lines 206-210: read_fiemap has returned; a result is dumped (`reported'
\* keeps for which arguments), fd closed, i++
Main_Return ==
    /\ InReadFiemap("returned")
    /\ IF ret # NULL
       THEN /\ reported' = Append(reported, i)
            /\ heap' = Dispose(heap, ret)
       ELSE UNCHANGED <<reported, heap>>
    /\ open_fds' = CloseFd(open_fds, fd)
    /\ i' = i + 1
    /\ main_pc' = "for"
    \* read_fiemap's frame is gone: its locals hold what the next call
    \* starts with (lines 78-85)
    /\ rf_pc' = "idle"
    /\ fd' = Indeterminate
    /\ fiemap' = NULL
    /\ result_fiemap' = NULL
    /\ fm_tmp' = Indeterminate
    /\ extents_size' = Indeterminate
    /\ result_extents' = 0
    /\ fiemap_start' = 0
    /\ fiemap_length' = Indeterminate
    /\ ret' = NULL
    /\ requests' = <<>>
    /\ answered' = <<>>
    /\ failed_call' = 0
    /\ stat_ok' = FALSE
    /\ UNCHANGED <<argc, exit_status, attempted, mem_error>>

\* line 211
Main_Exit ==
    /\ main_pc = "for"
    /\ ~(i < argc)
    /\ main_pc' = "exited"
    /\ exit_status' = "EXIT_SUCCESS"
    /\ UNCHANGED <<argc, i, open_fds, attempted, reported, rf_vars, heap,
                   mem_error, env_vars>>

\* ------------------------------------------------------- the specification
Init ==
    /\ argc \in 1..(MaxArgs + 1)
    /\ i = Indeterminate
    /\ main_pc = "main"
    /\ exit_status = "running"
    /\ open_fds = {}
    /\ attempted = <<>>
    /\ reported = <<>>
    /\ rf_pc = "idle"
    /\ fd = Indeterminate
    /\ fiemap = NULL
    /\ result_fiemap = NULL
    /\ fm_tmp = Indeterminate
    /\ extents_size = Indeterminate
    /\ result_extents = 0
    /\ fiemap_start = 0
    /\ fiemap_length = Indeterminate
    /\ ret = NULL
    /\ requests = <<>>
    /\ answered = <<>>
    /\ failed_call = 0
    /\ stat_ok = FALSE
    /\ heap = <<>>
    /\ mem_error = "none"

Next ==
    \/ Main_Syntax
    \/ Main_Loop
    \/ Main_OpenFail
    \/ Main_Open
    \/ Main_Return
    \/ Main_Exit
    \/ RF_FstatFail
    \/ RF_Fstat
    \/ RF_MallocFiemapFail
    \/ RF_MallocFiemap
    \/ RF_MallocResultFail
    \/ RF_MallocResult
    \/ RF_LoopEnd
    \/ RF_IoctlFail
    \/ RF_Ioctl
    \/ RF_Nothing
    \/ RF_ReallocFail
    \/ RF_Append
    \/ RF_Finish
    \/ RF_FailCleanup

Spec == Init /\ [][Next]_vars

\* ------------------------------------------ the size of the result block
\* Lines 139-148 on their own, for running counts the full model cannot hold
\* in its heap: the size computed for the result block and what realloc is
\* asked for, from a running count and a chunk's mapped count.
\*
\* The most extents whose size in bytes an int holds.
LargestCount == INT_MAX \div SizeofExtent

\* Running counts: small ones, and those from which a chunk takes the count
\* to LargestCount or just beyond.
SizeCounts ==
    {0, ShortChunk, MAX_EXTENTS}
        \cup {LargestCount - d :
                d \in (0..SizeWindow)
                        \cup (MAX_EXTENTS..(MAX_EXTENTS + SizeWindow))}

Size_Init ==
    /\ argc = 2
    /\ i = 1
    /\ main_pc = "read_fiemap"
    /\ exit_status = "running"
    /\ open_fds = {3}
    /\ attempted = <<1>>
    /\ reported = <<>>
    /\ rf_pc = "process"
    /\ fd = 3
    /\ fiemap = 1
    /\ result_fiemap = 2
    /\ result_extents \in SizeCounts
    /\ fm_tmp = (IF result_extents = 0 THEN Indeterminate ELSE 2)
    /\ extents_size = (IF result_extents = 0 THEN Indeterminate
                       ELSE ExtentsSize(result_extents, 0))
    /\ fiemap_start = 0
    /\ fiemap_length = BigFileSize
    /\ ret = NULL
    /\ requests = <<>>
    /\ answered = <<>>
    /\ failed_call = 0
    /\ stat_ok = TRUE
    \* the chunk buffer holds an answer of `mapped' extents; of the result
    \* block only its size is kept, not the extents it holds
    /\ \E mapped \in MappedCounts \ {0} :
          heap = <<[Zeroed(Block(1, "fiemap", MAX_EXTENTS), 0, BigFileSize)
                        EXCEPT !.data.fm_mapped_extents = mapped],
                   Block(1, "result_fiemap", result_extents)>>
    /\ mem_error = "none"

\* line 140
Size_Extents ==
    /\ InReadFiemap("process")
    /\ extents_size' = ExtentsSize(result_extents,
                                   heap[fiemap].data.fm_mapped_extents)
    /\ rf_pc' = "realloc"
    /\ UNCHANGED <<main_vars, fd, fiemap, result_fiemap, fm_tmp,
                   result_extents, fiemap_start, fiemap_length, ret, heap,
                   mem_error, env_vars>>

\* lines 143-147: realloc fails
Size_ReallocFail ==
    /\ InReadFiemap("realloc")
    /\ fm_tmp' = NULL
    /\ rf_pc' = "fail_cleanup"
    /\ UNCHANGED <<main_vars, fd, fiemap, result_fiemap, extents_size,
                   result_extents, fiemap_start, fiemap_length, ret, heap,
                   mem_error, env_vars>>

\* lines 143-148: realloc grants the size asked for
Size_Realloc ==
    /\ InReadFiemap("realloc")
    /\ Grantable(extents_size)
    /\ fm_tmp' = result_fiemap
    /\ heap' = [heap EXCEPT ![result_fiemap].room = RoomFor(extents_size)]
    /\ rf_pc' = "memcpy"
    /\ UNCHANGED <<main_vars, fd, fiemap, result_fiemap, extents_size,
                   result_extents, fiemap_start, fiemap_length, ret,
                   mem_error, env_vars>>

Size_Next ==
    \/ Size_Extents
    \/ Size_ReallocFail
    \/ Size_Realloc

SizeSpec == Size_Init /\ [][Size_Next]_vars

\* ---------------------------------------------------------------- claims
Returned == main_pc = "read_fiemap" /\ rf_pc = "returned"
Succeeded == Returned /\ ret # NULL
Failed == Returned /\ ret = NULL

\* The extents the result block holds.
ResultExtents(p) == heap[p].data.fm_extents

LastOf(chunk) == chunk[Len(chunk)]

\* The interface answered every call so far with a non-empty chunk and
\* flagged, of all extents, only the final extent of the final chunk.
AnsweredUntilLast ==
    /\ answered # <<>>
    /\ failed_call = 0
    /\ \A n \in 1..Len(answered) :
        /\ answered[n] # <<>>
        /\ \A k \in 1..Len(answered[n]) :
            IsLast(answered[n][k]) <=>
                (n = Len(answered) /\ k = Len(answered[n]))

\* What C1 promises of a return.
WholeResult ==
    /\ ret # NULL
    /\ Len(requests) = Len(answered)
    /\ ResultExtents(ret) = Concat(answered)
    /\ heap[ret].data.fm_mapped_extents = Sum(Lens(answered))

ShortUnflagged ==
    /\ InReadFiemap("process")
    /\ heap[fiemap].data.fm_mapped_extents \in 1..(MAX_EXTENTS - 1)
    /\ ~IsLast(LastOf(Entries(heap, fiemap,
                              heap[fiemap].data.fm_mapped_extents)))

\* C2: a short chunk whose last extent is not flagged does not end the loop:
\* once it is appended and the cursor it leaves is below the file size, the
\* driver is back at the loop head, and from there, the cursor below the file
\* size, its step is another interface call.
C2_ShortChunkContinues ==
    [][/\ (ShortUnflagged /\ rf_pc' # "fail_cleanup"
            /\ fiemap_start' < fiemap_length')
          => (rf_pc' = "while" /\ ret' = ret)
       /\ (InReadFiemap("while") /\ fiemap_start < fiemap_length)
          => (Len(requests') = Len(requests) + 1
              /\ requests'[Len(requests')].data.fm_start = fiemap_start)
      ]_vars

\* A second call was issued after a short, unflagged first chunk.
C2_Witness ==
    /\ InReadFiemap("process")
    /\ Len(requests) = 2
    /\ Len(answered[1]) = ShortChunk
    /\ ~IsLast(LastOf(answered[1]))
    /\ requests[2].data.fm_start > 0

\* C3: once an interface call has failed, read_fiemap is on its way to
\* returning NULL: what the failed call left in the buffer is not appended
\* (count and extents are those of the calls answered before), the cursor is
\* still the failed request's start, and the caller gets no block.
C3_FailureReturnsNothing ==
    (main_pc = "read_fiemap" /\ failed_call # 0) =>
        /\ rf_pc \in {"fail_cleanup", "returned"}
        /\ fiemap_start = requests[failed_call].data.fm_start
        /\ result_extents = Sum(Lens(answered))
        /\ rf_pc = "fail_cleanup" =>
               ResultExtents(result_fiemap) = Concat(answered)
        /\ rf_pc = "returned" => (ret = NULL /\ ~Live(result_fiemap))

\* The second call failed after the first had delivered extents, and the
\* failed call left an extent in the buffer.
C3_Witness ==
    /\ Failed
    /\ failed_call = 2
    /\ result_extents > 0
    /\ heap = <<>>

\* The chunks whose processing is over: all answered ones but the one in the
\* buffer while it is being processed.
Completed ==
    IF rf_pc = "process" THEN SubSeq(answered, 1, Len(answered) - 1)
    ELSE answered

\* C4: while a file is processed, the running count and the number of
\* extents the result block holds equal the sum of the mapped counts of the
\* completed queries, and so does the count stored in a returned result.
C4_CountIsSum ==
    /\ InReadFiemap("while") \/ InReadFiemap("process") \/ InReadFiemap("finish")
       => /\ result_extents = Sum(Lens(Completed))
          /\ Len(ResultExtents(result_fiemap)) = result_extents
    /\ Succeeded
       => /\ heap[ret].data.fm_mapped_extents = Sum(Lens(answered))
          /\ Len(ResultExtents(ret)) = Sum(Lens(answered))

\* A result of several chunks is returned.
C4_Witness ==
    /\ Succeeded
    /\ Len(answered) = 3
    /\ heap[ret].data.fm_mapped_extents = MAX_EXTENTS + ShortChunk + 1

\* The chunk last answered was appended, it is not empty, its last extent is
\* not flagged, and the cursor it leaves is not beyond the start of the
\* request that fetched it.
Stuck ==
    /\ main_pc = "read_fiemap"
    /\ rf_pc \in {"while", "finish", "fail_cleanup", "returned"}
    /\ answered # <<>>
    /\ Len(answered) = Len(requests)
    /\ failed_call = 0
    /\ LastOf(answered) # <<>>
    /\ ~IsLast(LastOf(LastOf(answered)))
    /\ result_extents = Sum(Lens(answered))
    /\ fiemap_start <= requests[Len(requests)].data.fm_start

\* C5 as stated: after a non-empty, unflagged chunk that does not move the
\* cursor forward the driver stops with a failure; it is never back at the
\* loop head, and never returns a result.
C5_AsStated ==
    Stuck => (rf_pc = "fail_cleanup" \/ (rf_pc = "returned" /\ ret = NULL))

\* C6 as stated: a file of size 0 whose size lookup succeeds is never queried
\* and read_fiemap returns an empty result, not NULL.
C6_AsStated ==
    (main_pc = "read_fiemap" /\ stat_ok /\ fiemap_length = 0) =>
        /\ requests = <<>>
        /\ rf_pc = "returned" =>
              /\ ret # NULL
              /\ heap[ret].data.fm_mapped_extents = 0
              /\ ResultExtents(ret) = <<>>

\* C6 (amended): a file of size 0 whose size lookup succeeds is never queried
\* (the loop body does not run), and when both buffers were allocated
\* (result_fiemap is not NULL) read_fiemap returns an empty result, not NULL.
C6_EmptyFile ==
    (main_pc = "read_fiemap" /\ stat_ok /\ fiemap_length = 0) =>
        /\ requests = <<>>
        /\ rf_pc \notin {"process"}
        /\ (rf_pc = "returned" /\ result_fiemap # NULL) =>
              /\ ret # NULL
              /\ heap[ret].data.fm_mapped_extents = 0
              /\ ResultExtents(ret) = <<>>

C6_Witness ==
    /\ Succeeded
    /\ stat_ok
    /\ fiemap_length = 0
    /\ requests = <<>>
    /\ heap[ret].data.fm_mapped_extents = 0

\* The blocks the current call of read_fiemap allocated and did not release.
OwnBlocks ==
    {b \in DOMAIN heap : heap[b].owner = i}

\* C7: no block is freed twice or written past its end, the pointers the
\* driver holds while it runs name live blocks, and when read_fiemap returns
\* NULL every block it allocated has been released.
C7_FailureReleasesAll ==
    /\ mem_error = "none"
    /\ Failed => OwnBlocks = {}
    /\ InReadFiemap("fail_cleanup") =>
          /\ fiemap # NULL /\ Live(fiemap)
          /\ result_fiemap # NULL => Live(result_fiemap)
          /\ OwnBlocks = {fiemap, result_fiemap} \ {NULL}

\* A failed growth after the result block had grown: both buffers released.
C7_Witness ==
    /\ Failed
    /\ fm_tmp = NULL
    /\ result_extents = MAX_EXTENTS + 1
    /\ OwnBlocks = {}

\* C8 as stated: when the next file is opened, and at exit, no buffer of an
\* earlier file is still allocated.
C8_AsStated ==
    main_pc \in {"for", "exited"} => DOMAIN heap = {}

\* C9: the arguments are tried once each in argument order, whatever became
\* of the earlier ones; a file whose read failed is not reported; no
\* descriptor stays open; the exit status is failure exactly when there is
\* no argument, and success is reached only after the last argument.
C9_EveryArgumentOnce ==
    /\ [](/\ attempted = [n \in 1..Len(attempted) |-> n]
          /\ main_pc = "for" => (Len(attempted) = i - 1 /\ open_fds = {})
          /\ main_pc = "read_fiemap" =>
                (Len(attempted) = i /\ open_fds = {fd})
          /\ \A n \in 1..Len(reported) : reported[n] \in 1..Len(attempted)
          /\ \A n \in 1..(Len(reported) - 1) : reported[n] < reported[n + 1]
          /\ main_pc = "exited" =>
                /\ exit_status = "EXIT_FAILURE" <=> argc < 2
                /\ exit_status = "EXIT_SUCCESS" <=> ~(argc < 2)
                /\ Len(attempted) = argc - 1
                /\ open_fds = {})
    /\ [][/\ Failed => (reported' = reported /\ main_pc' = "for" /\ i' = i + 1)
          /\ Succeeded => (reported' = Append(reported, i) /\ main_pc' = "for"
                           /\ i' = i + 1)
          /\ (main_pc = "for" /\ i < argc) =>
                (attempted' = Append(attempted, i) /\ main_pc' # "exited")
         ]_vars

\* Two arguments: the first could not be read, the second was reported, and
\* the process exited with success.
C9_Witness ==
    /\ main_pc = "exited"
    /\ exit_status = "EXIT_SUCCESS"
    /\ attempted = <<1, 2>>
    /\ reported = <<2>>

\* C10: an append leaves the extents the result held where they were and puts
\* the chunk's extents, in chunk order, right behind them.
C10_AppendKeepsPrefix ==
    [][(InReadFiemap("process") /\ rf_pc' \in {"while", "finish"}
        /\ heap[fiemap].data.fm_mapped_extents # 0)
       => LET old == ResultExtents(result_fiemap)
              new == heap'[result_fiemap'].data.fm_extents
              chunk == LastOf(answered)
          IN  /\ Len(old) = result_extents
              /\ Len(new) = Len(old) + Len(chunk)
              /\ SubSeq(new, 1, Len(old)) = old
              /\ SubSeq(new, Len(old) + 1, Len(new)) = chunk
              /\ result_extents' = Len(new)
      ]_vars

\* Chunks of 1, 1024 and 5 extents were appended one after the other.
C10_Witness ==
    /\ InReadFiemap("while")
    /\ Lens(answered) = <<1, MAX_EXTENTS, ShortChunk>>
    /\ ResultExtents(result_fiemap) = Concat(answered)
    /\ result_extents = MAX_EXTENTS + ShortChunk + 1

\* The extents accumulated for the current file: those of the result block
\* while the loop runs, those of the returned block after a success.
Accumulated ==
    IF rf_pc = "returned" THEN ResultExtents(ret)
    ELSE ResultExtents(result_fiemap)

HasResult ==
    \/ InReadFiemap("while") \/ InReadFiemap("process") \/ InReadFiemap("finish")
    \/ Succeeded

\* Every response so far lists its extents in increasing, non-overlapping
\* logical order, none of them before the start offset of its request.
OrderedResponses ==
    \A n \in 1..Len(answered) :
        /\ \A k \in 1..Len(answered[n]) :
              answered[n][k].fe_logical >= requests[n].data.fm_start
        /\ \A k \in 1..(Len(answered[n]) - 1) :
              /\ answered[n][k].fe_logical < answered[n][k + 1].fe_logical
              /\ NextStart(answered[n][k]) <= answered[n][k + 1].fe_logical

\* Consecutive accumulated extents do not overlap.
NonOverlapping(exts) ==
    \A k \in 1..(Len(exts) - 1) : NextStart(exts[k]) <= exts[k + 1].fe_logical

\* Logical offsets strictly increase: no extent is held twice.
StrictlyOrdered(exts) ==
    \A k \in 1..(Len(exts) - 1) : exts[k].fe_logical < exts[k + 1].fe_logical

\* C11 as stated: when every response is ordered, non-overlapping and not
\* before its request's start, the accumulated extents are, after every
\* append and across chunk boundaries, strictly ordered by logical offset
\* with no duplicates, each ending at or before the start of the next.
C11_AsStated ==
    (HasResult /\ OrderedResponses) =>
        /\ NonOverlapping(Accumulated)
        /\ StrictlyOrdered(Accumulated)

\* The part of C11 the code does keep: under the same condition no two
\* consecutive accumulated extents overlap.
C11_NoOverlap ==
    (HasResult /\ OrderedResponses) => NonOverlapping(Accumulated)

C11_NoOverlap_Witness ==
    /\ Succeeded
    /\ OrderedResponses
    /\ Lens(answered) = <<MAX_EXTENTS, ShortChunk>>

\* C13 as stated: a query with start offset s on a file of size S asks for
\* length S - s, so that the requested range [s, s + length) ends at S.
C13_AsStated ==
    main_pc = "read_fiemap" =>
        \A n \in 1..Len(requests) :
            /\ requests[n].data.fm_length =
                   fiemap_length - requests[n].data.fm_start
            /\ requests[n].data.fm_start + requests[n].data.fm_length
                   <= fiemap_length

\* C13 (amended): every query asks for length S, the whole file size,
\* whatever its start offset s; s is below S, so the requested range
\* [s, s + S) ends below 2 * S (and past S as soon as s > 0).
C13_LengthIsFileSize ==
    main_pc = "read_fiemap" =>
        \A n \in 1..Len(requests) :
            /\ requests[n].data.fm_length = fiemap_length
            /\ requests[n].data.fm_start < fiemap_length
            /\ requests[n].data.fm_start + requests[n].data.fm_length
                   < 2 * fiemap_length
            /\ requests[n].data.fm_start > 0 =>
                   requests[n].data.fm_start + requests[n].data.fm_length
                       > fiemap_length

\* A third query, well into the file, still asks for the whole file size.
C13_Witness ==
    /\ main_pc = "read_fiemap"
    /\ Len(requests) = 3
    /\ requests[3].data.fm_start = MAX_EXTENTS + 1
    /\ requests[3].data.fm_length = BigFileSize
    /\ fiemap_length = BigFileSize

\* C14: every request handed to the interface is freshly zeroed (mapped count
\* 0, no extent data, every extent slot zero), has capacity 1024 and the sync
\* flag set, starts at 0 when it is the first and where the previous chunk's
\* last extent ends when it is a later one, and starts below the file size.
C14_FreshRequests ==
    main_pc = "read_fiemap" =>
        \A n \in 1..Len(requests) :
            /\ requests[n].fill = ZeroExtent
            /\ requests[n].data.fm_mapped_extents = 0
            /\ requests[n].data.fm_extents = <<>>
            /\ requests[n].data.fm_extent_count = 1024
            /\ (requests[n].data.fm_flags \div FIEMAP_FLAG_SYNC) % 2 = 1
            /\ requests[n].data.fm_start =
                   IF n = 1 THEN 0
                   ELSE LastOf(answered[n - 1]).fe_logical
                            + LastOf(answered[n - 1]).fe_length
            /\ requests[n].data.fm_start < fiemap_length

\* The third request follows a full chunk of 1024 extents that was in the
\* buffer: it starts where that chunk ended and carries none of it.
C14_Witness ==
    /\ main_pc = "read_fiemap"
    /\ Len(requests) = 3
    /\ Lens(SubSeq(answered, 1, 2)) = <<ShortChunk, MAX_EXTENTS>>
    /\ requests[3].data.fm_start = ShortChunk + MAX_EXTENTS
    /\ requests[3].data.fm_extents = <<>>

\* The final chunk was not empty and its last extent is not flagged last.
FinalChunkUnflagged ==
    /\ answered # <<>>
    /\ LastOf(answered) # <<>>
    /\ ~IsLast(LastOf(LastOf(answered)))

\* C15 as stated: once a query has been issued, read_fiemap returns success
\* only after a zero-extent response or after a chunk whose last extent is
\* flagged last.
C15_AsStated ==
    (Succeeded /\ requests # <<>>) => ~FinalChunkUnflagged

\* C15 (amended): once a query has been issued, read_fiemap returns success
\* only after a zero-extent response, after a chunk whose last extent is
\* flagged last, or after a chunk that left the cursor at or past the file
\* size.
C15_SuccessOnlyWhenDone ==
    (Succeeded /\ requests # <<>>) =>
        /\ Len(answered) = Len(requests)
        /\ FinalChunkUnflagged =>
               /\ fiemap_start >= fiemap_length
               /\ fiemap_start = LastOf(LastOf(answered)).fe_logical
                                     + LastOf(LastOf(answered)).fe_length

\* A success after a second chunk that is not empty and not flagged: it left
\* the cursor at or past the file size.
C15_Witness ==
    /\ Succeeded
    /\ Len(requests) = 2
    /\ FinalChunkUnflagged
    /\ fiemap_start >= fiemap_length

\* The call last answered reported no extent, or a chunk whose last extent is
\* flagged last.
LastAnswerEnds ==
    /\ main_pc = "read_fiemap"
    /\ answered # <<>>
    /\ \/ LastOf(answered) = <<>>
       \/ IsLast(LastOf(LastOf(answered)))

\* read_fiemap has returned every extent the interface reported.
ReturnsAccumulated ==
    /\ ret # NULL
    /\ ResultExtents(ret) = Concat(answered)
    /\ heap[ret].data.fm_mapped_extents = Sum(Lens(answered))

\* C16 as stated: after a zero-extent answer or a chunk whose last extent is
\* flagged last no further call is issued (the answered call stays the last
\* one requested) and read_fiemap goes on to return success with all extents
\* accumulated so far.
C16_AsStated ==
    LastAnswerEnds =>
        /\ Len(requests) = Len(answered)
        /\ rf_pc \in {"process", "finish", "returned"}
        /\ rf_pc = "returned" => ReturnsAccumulated

\* C16 (amended): after a zero-extent answer or a chunk whose last extent is
\* flagged last no further call is issued.  After a zero-extent answer the
\* result is left as it was and returned with success, also on the first
\* call.  After a flagged chunk read_fiemap returns success with all extents
\* when growing the result for that chunk succeeded, and fails only when it
\* did not (fm_tmp = NULL).
C16_EndsAfterLast ==
    LastAnswerEnds =>
        /\ Len(requests) = Len(answered)
        /\ failed_call = 0
        /\ rf_pc \in {"process", "finish", "fail_cleanup", "returned"}
        /\ rf_pc = "fail_cleanup" => (fm_tmp = NULL /\ LastOf(answered) # <<>>)
        /\ (rf_pc = "finish" /\ LastOf(answered) = <<>>) =>
               ResultExtents(result_fiemap)
                   = Concat(SubSeq(answered, 1, Len(answered) - 1))
        /\ (rf_pc = "returned" /\ (LastOf(answered) = <<>> \/ fm_tmp # NULL))
               => ReturnsAccumulated

\* A second chunk whose last extent is flagged ended the loop with the cursor
\* still below the file size; both chunks are returned.
C16_Witness ==
    /\ Succeeded
    /\ Lens(answered) = <<1, ShortChunk>>
    /\ IsLast(LastOf(LastOf(answered)))
    /\ Len(requests) = 2
    /\ fiemap_start < fiemap_length
    /\ Len(ResultExtents(ret)) = ShortChunk + 1

\* C17: the core errors end the work on the file.  After a failed size lookup
\* no interface call is ever issued; a failed interface call is the last call
\* issued; after a failed growth of the result no call follows the one whose
\* chunk could not be appended; and in each case read_fiemap returns NULL.
C17_ErrorsAreTerminal ==
    /\ [](main_pc = "read_fiemap" =>
            /\ (rf_pc # "fstat" /\ ~stat_ok) =>
                   (requests = <<>> /\ rf_pc = "returned" /\ ret = NULL)
            /\ failed_call # 0 =>
                   /\ failed_call = Len(requests)
                   /\ Len(answered) = Len(requests) - 1
                   /\ rf_pc \in {"fail_cleanup", "returned"}
                   /\ rf_pc = "returned" => ret = NULL
            /\ (fm_tmp = NULL /\ result_fiemap # NULL) =>
                   /\ Len(answered) = Len(requests)
                   /\ result_extents = Sum(Lens(answered)) - Len(LastOf(answered))
                   /\ rf_pc \in {"fail_cleanup", "returned"}
                   /\ rf_pc = "returned" => ret = NULL)
    /\ [][(main_pc = "read_fiemap"
            /\ (failed_call # 0 \/ fm_tmp = NULL
                \/ (rf_pc # "fstat" /\ ~stat_ok)))
          => (requests' = requests \/ main_pc' = "for")]_vars

\* The second call failed after a chunk had been appended, and read_fiemap
\* returned NULL without a third call.
C17_Witness ==
    /\ Failed
    /\ failed_call = 2
    /\ Len(requests) = 2
    /\ Lens(answered) = <<ShortChunk>>

\* C18 as stated: a file whose size is zero, like a file whose size cannot be
\* determined, makes read_fiemap return a failure, not a result.
C18_AsStated ==
    (Returned /\ (~stat_ok \/ fiemap_length = 0)) => ret = NULL

\* C18 (amended): step 1 fails exactly when the size cannot be determined,
\* and then read_fiemap returns NULL at once; a size that was determined,
\* zero included, sends the driver on to its allocations, and a file of size
\* zero whose buffers were allocated gets an empty result, not a failure.
C18_OnlyLookupFailureFails ==
    /\ [][InReadFiemap("fstat") =>
            IF stat_ok'
            THEN /\ rf_pc' = "malloc_fiemap"
                 /\ fiemap_length' \in {0, SmallFileSize, BigFileSize}
                 /\ ret' = ret
            ELSE /\ rf_pc' = "returned"
                 /\ ret' = NULL
                 /\ heap' = heap]_vars
    /\ []((Returned /\ stat_ok /\ fiemap_length = 0) =>
            IF fiemap # NULL /\ result_fiemap # NULL
            THEN /\ ret = result_fiemap
                 /\ heap[ret].data.fm_mapped_extents = 0
            ELSE ret = NULL)

\* The size lookup of an empty file succeeded and read_fiemap returned a
\* result: a live block with no extents, the chunk buffer released.
C18_Witness ==
    /\ Succeeded
    /\ stat_ok
    /\ fiemap_length = 0
    /\ Live(ret)
    /\ ~Live(fiemap)
    /\ ResultExtents(ret) = <<>>

\* C19 as stated: for every append, whatever the running count, the byte size
\* computed in the int extents_size is that of current_count + k entries: the
\* product does not wrap or truncate to less than the region the copy writes
\* (entries 1 .. current_count + k).
C19_AsStated ==
    (main_pc = "read_fiemap" /\ rf_pc \in {"realloc", "memcpy", "fail_cleanup"})
        => /\ extents_size >= 0
           /\ RoomFor(extents_size)
                  >= result_extents + heap[fiemap].data.fm_mapped_extents

\* What the code does keep: a size that is granted has room for the region
\* the copy writes; a size that wrapped is negative and is never granted.
C19_GrantedSizeFits ==
    /\ InReadFiemap("memcpy") =>
          heap[result_fiemap].room
              >= result_extents + heap[fiemap].data.fm_mapped_extents
    /\ (main_pc = "read_fiemap" /\ rf_pc \in {"realloc", "fail_cleanup"}
            /\ result_extents + heap[fiemap].data.fm_mapped_extents
                   > LargestCount)
          => ~Grantable(extents_size)

====
